---- MODULE Spec2Model ----
(***************************************************************************)
(* Long-multiplication calculator (src/src/main.c).                        *)
(*                                                                         *)
(* One run of main: the arguments are parsed into the Multiplication       *)
(* struct, generate_operations fills the per-row units / carry / sum slots *)
(* and print_text renders the layout.                                      *)
(*                                                                         *)
(* Scaling.  The program computes in unsigned long long (64 bits) and its  *)
(* operations array has 500000 slots.  TLC's integers have 32 bits, so the *)
(* word is scaled to WordBits bits and the array to OperationsCapacity     *)
(* slots (500000 = 2 mod 3, and so is the scaled capacity: the last row    *)
(* that starts inside the array ends one slot outside it).  Every          *)
(* unsigned operation is reduced modulo 2^WordBits exactly where the C     *)
(* operation is reduced modulo 2^64.                                       *)
(*                                                                         *)
(* Memory.  `struct Multiplication multiplication;` in main is never       *)
(* initialised.  The slots of operations[], followed by operations_size    *)
(* and is_printing_description (which the struct lays out right after the  *)
(* array) and by the stack words above the struct, are the function mem;   *)
(* Init draws its prior contents from a set of stale patterns.             *)
(***************************************************************************)
EXTENDS Integers, Sequences, FiniteSets, TLC

\* ---------------------------------------------------------------- bounds
WordBits == 16
OperationsCapacity == 8
MaxMultiplierLen == 4

\* ------------------------------------------------------ program constants
ERROR_ARGUMENTS == 2
ScratchCapacity == 4000

Modulus == 2 ^ WordBits
ULLONG_MAX == Modulus - 1

\* Slot of mem that holds operations_size, and the one whose low byte is
\* is_printing_description (struct layout, lines 22-25).
SizeSlot == OperationsCapacity
FlagSlot == OperationsCapacity + 1
MemTop == IF 3 * MaxMultiplierLen - 1 > FlagSlot THEN 3 * MaxMultiplierLen - 1 ELSE FlagSlot
Slots == 0 .. MemTop

\* ---------------------------------------------------------------- inputs
Chars == {"0", "9", "a"}
DigitChars == {"0", "1", "2", "3", "4", "5", "6", "7", "8", "9"}

RECURSIVE StringsOfLen(_)
StringsOfLen(n) ==
    IF n = 0 THEN {<< >>}
    ELSE {Append(s, c) : s \in StringsOfLen(n - 1), c \in Chars}

MultiplierStrs == UNION {StringsOfLen(n) : n \in 1 .. MaxMultiplierLen}

MultiplicandStrs ==
    { <<"0">>, <<"9">>, <<"9", "9">>, <<"0", "9">>, <<"9", "a">>,
      <<"0", "0", "0", "9">> }

FlagTokens == { <<"n", "o">>, <<"N">>, <<"y">> }

OutputType == <<"p", "l", "a", "i", "n">>

\* argv[1..argc-1]; the runs with argc = 5 carry the enumerated operands.
ArgvSet ==
    { <<b, a, OutputType, f>> :
        b \in MultiplierStrs, a \in MultiplicandStrs, f \in FlagTokens }
    \cup { << >>, << <<"9">> >>, << <<"9">>, <<"9">> >>,
           << <<"9">>, <<"9">>, OutputType >>,
           << <<"9">>, <<"9">>, OutputType, <<"y">>, <<"y">> >> }

\* Prior contents of the uninitialised struct memory: all slots zero, or
\* the slots of one pattern holding a stale word.
StaleWord == 7
StalePatterns == { {}, {0}, {1}, {FlagSlot} }
StaleMems == { [s \in Slots |-> IF s \in D THEN StaleWord ELSE 0] : D \in StalePatterns }

\* ------------------------------------------------- unsigned word arithmetic
Add(x, y) == (x + y) % Modulus
Sub(x, y) == (x - y + Modulus) % Modulus
\* x * y modulo 2^WordBits, split so that no intermediate exceeds TLC's range.
Mul(x, y) == ((((x * (y \div 256)) % Modulus) * 256) + x * (y % 256)) % Modulus

\* ----------------------------------------------------------- C library
Ord(c) ==
    CASE c = "0" -> 48 [] c = "1" -> 49 [] c = "2" -> 50 [] c = "3" -> 51
      [] c = "4" -> 52 [] c = "5" -> 53 [] c = "6" -> 54 [] c = "7" -> 55
      [] c = "8" -> 56 [] c = "9" -> 57 [] c = "a" -> 97

Chr(d) ==
    CASE d = 0 -> "0" [] d = 1 -> "1" [] d = 2 -> "2" [] d = 3 -> "3"
      [] d = 4 -> "4" [] d = 5 -> "5" [] d = 6 -> "6" [] d = 7 -> "7"
      [] d = 8 -> "8" [] d = 9 -> "9"

strlen(s) == Len(s)

\* Length of the longest prefix of s made of decimal digits.
RECURSIVE DigitPrefixLen(_, _)
DigitPrefixLen(s, k) ==
    IF k < Len(s) /\ s[k + 1] \in DigitChars THEN DigitPrefixLen(s, k + 1) ELSE k

\* Mathematical value of the digit string s[1..n].
RECURSIVE DigitsValue(_, _)
DigitsValue(s, n) ==
    IF n = 0 THEN 0 ELSE DigitsValue(s, n - 1) * 10 + (Ord(s[n]) - 48)

\* strtoul(s, &end, 10): the leading digits, clamped to ULONG_MAX
\* (unsigned long has the width of unsigned long long on LP64).
strtoul(s) ==
    LET v == DigitsValue(s, DigitPrefixLen(s, 0))
    IN  IF v > ULLONG_MAX THEN ULLONG_MAX ELSE v

\* sprintf("%llu", n) / printf("%llu", n): the decimal numeral of n.
RECURSIVE FormatLLU(_)
FormatLLU(n) ==
    IF n < 10 THEN << Chr(n) >> ELSE Append(FormatLLU(n \div 10), Chr(n % 10))

\* ------------------------------------------------------------ count_digits
RECURSIVE count_loop(_, _)
count_loop(number, count) ==
    IF number # 0 THEN count_loop(number \div 10, count + 1) ELSE count

count_digits(number) == IF number = 0 THEN 1 ELSE count_loop(number, 0)

\* --------------------------------------------------------------- get_power
RECURSIVE power_loop(_, _, _, _)
power_loop(base, exponent, i, result) ==
    IF i < exponent THEN power_loop(base, exponent, i + 1, Mul(result, base))
    ELSE result

get_power(base, exponent) == power_loop(base, exponent, 0, 1)

\* ------------------------------------------------------------------ state
VARIABLES
    argv,               \* argv[1..argc-1]
    pc,                 \* position in main
    multiplier, multiplier_str, multiplier_size,
    multiplicand, multiplicand_str, multiplicand_size,
    result, result_size,
    mem,                \* operations[], operations_size, is_printing_description, stack above
    output,             \* the lines handed to printf, in order
    exit_status,        \* how the process ended
    oob_writes,         \* slots outside operations[] that generate_operations wrote
    fill_calls          \* the set_text_fill calls print_text made

vars ==
    << argv, pc, multiplier, multiplier_str, multiplier_size,
       multiplicand, multiplicand_str, multiplicand_size,
       result, result_size, mem, output, exit_status, oob_writes, fill_calls >>

argc == Len(argv) + 1

operations_size == mem[SizeSlot]
is_printing_description == mem[FlagSlot] % 256

Line(kind, row, text, note) ==
    [kind |-> kind, row |-> row, text |-> text, note |-> note]

Init ==
    /\ argv \in ArgvSet
    /\ pc = "start"
    /\ multiplier = 0 /\ multiplier_str = << >> /\ multiplier_size = 0
    /\ multiplicand = 0 /\ multiplicand_str = << >> /\ multiplicand_size = 0
    /\ result = 0 /\ result_size = 0
    /\ mem \in StaleMems
    /\ output = << >>
    /\ exit_status = "running"
    /\ oob_writes = {}
    /\ fill_calls = {}

\* ------------------------------------------------------- main, lines 200-220
ArgumentMessages(n) ==
    << Line("error", 0, <<"Content-Type: text/plain;charset=UTF-8">>, << >>),
       Line("error", 0, <<"Error: Some arguments are missing.">>, << >>) >>
    \o (IF n < 2 THEN << Line("error", 1, <<"The argument #1 (multiplier) is missing.">>, << >>) >> ELSE << >>)
    \o (IF n < 3 THEN << Line("error", 2, <<"The argument #2 (multiplicand) is missing.">>, << >>) >> ELSE << >>)
    \o (IF n < 4 THEN << Line("error", 3, <<"The argument #3 (output_type) is missing.">>, << >>) >> ELSE << >>)
    \o (IF n < 5 THEN << Line("error", 4, <<"The argument #4 (print_description) is missing.">>, << >>) >> ELSE << >>)
    \o (IF n > 5 THEN << Line("error", 5, <<"Too many arguments supplied.">>, << >>) >> ELSE << >>)
    \o << Line("error", 0, <<"Exiting...">>, << >>) >>

MainArgumentsError ==
    /\ pc = "start"
    /\ argc # 5
    /\ output' = ArgumentMessages(argc)
    /\ exit_status' = "ERROR_ARGUMENTS"
    /\ pc' = "exited"
    /\ UNCHANGED << argv, multiplier, multiplier_str, multiplier_size,
                    multiplicand, multiplicand_str, multiplicand_size,
                    result, result_size, mem, oob_writes, fill_calls >>

\* ------------------------------------------------------- main, lines 222-244
\* The flag byte is cleared only for a token that starts with n or N; for
\* every other token it keeps the stale byte of the uninitialised struct.
FlagIsOff(token) == token[1] = "n" \/ token[1] = "N"

ClearFlag(m) == [m EXCEPT ![FlagSlot] = @ - (@ % 256)]

MainParse ==
    /\ pc = "start"
    /\ argc = 5
    /\ output' = << Line("header", 0, <<"Content-Type: text/">> \o argv[3] \o <<";charset=UTF-8">>, << >>) >>
    /\ multiplier' = strtoul(argv[1])
    /\ multiplicand' = strtoul(argv[2])
    /\ multiplier_str' = argv[1]
    /\ multiplicand_str' = argv[2]
    /\ multiplier_size' = strlen(argv[1])
    /\ multiplicand_size' = strlen(argv[2])
    /\ result' = Mul(strtoul(argv[1]), strtoul(argv[2]))
    /\ result_size' = strlen(FormatLLU(Mul(strtoul(argv[1]), strtoul(argv[2]))))
    /\ mem' = IF FlagIsOff(argv[4]) THEN ClearFlag(mem) ELSE mem
    /\ pc' = "parsed"
    /\ UNCHANGED << argv, exit_status, oob_writes, fill_calls >>

\* ------------------------------------------ generate_operations, lines 152-187
multiplier_max == Sub(multiplier_size, 1)
multiplicand_max == Sub(multiplicand_size, 1)

\* lines 170-181, from iteration b on
RECURSIVE inner_loop(_, _, _, _)
inner_loop(ops, index, index_multiplier, b) ==
    IF b <= multiplicand_max
    THEN LET index_multiplicand == Sub(multiplicand_max, b)
             digit_position == get_power(10, b)
             carry_position == get_power(10, b + 1)
             multiplier_digit == Sub(Ord(multiplier_str[index_multiplier + 1]), 48)
             multiplicand_digit == Sub(Ord(multiplicand_str[index_multiplicand + 1]), 48)
             multiplication == Mul(multiplier_digit, multiplicand_digit)
             last_digit == multiplication % 10
             first_digits == multiplication \div 10
             units == [ops EXCEPT ![index] = Add(@, Mul(last_digit, digit_position))]
             carry == [units EXCEPT ![index + 1] = Add(@, Mul(first_digits, carry_position))]
         IN  inner_loop(carry, index, index_multiplier, b + 1)
    ELSE ops

\* line 183
row_sum(ops, index) == Add(ops[index], ops[index + 1])

\* lines 165-184, from iteration a on
RECURSIVE outer_loop(_, _)
outer_loop(ops, a) ==
    IF a <= multiplier_max
    THEN LET index_multiplier == Sub(multiplier_max, a)
             index == Mul(Sub(multiplier_max, index_multiplier), 3)
             touched == [ops EXCEPT ![index + 1] = Add(@, 0)]
             filled == inner_loop(touched, index, index_multiplier, 0)
             summed == [filled EXCEPT ![index + 2] = row_sum(filled, index)]
         IN  outer_loop(summed, a + 1)
    ELSE ops

\* line 186: index is the last row's index
last_index == Mul(multiplier_max, 3)

generate_operations(ops) ==
    [outer_loop(ops, 0) EXCEPT ![SizeSlot] = Add(last_index, 3)]

\* Every row writes its three slots index, index + 1, index + 2.
WrittenSlots == 0 .. (last_index + 2)
OutsideArray == {s \in WrittenSlots : s >= OperationsCapacity}
OutsideStruct == {s \in WrittenSlots : s > FlagSlot}

\* The writes land where the struct layout puts them and the call returns.
GenerateOperations ==
    /\ pc = "parsed"
    /\ mem' = generate_operations(mem)
    /\ oob_writes' = OutsideArray
    /\ pc' = "generated"
    /\ UNCHANGED << argv, multiplier, multiplier_str, multiplier_size,
                    multiplicand, multiplicand_str, multiplicand_size,
                    result, result_size, output, exit_status, fill_calls >>

\* A write above the struct runs into main's frame: the process may also die.
GenerateOperationsFault ==
    /\ pc = "parsed"
    /\ OutsideStruct # {}
    /\ oob_writes' = OutsideArray
    /\ exit_status' = "SIGSEGV"
    /\ pc' = "crashed"
    /\ UNCHANGED << argv, multiplier, multiplier_str, multiplier_size,
                    multiplicand, multiplicand_str, multiplicand_size,
                    result, result_size, mem, output, fill_calls >>

\* ------------------------------------------------ set_text_fill, lines 66-78
NUL == "NUL"

\* lines 69-74: characters[0..size] after the loop (size < ScratchCapacity)
scratch_after_loop(character, size) ==
    [i \in 0 .. size |-> IF i = size THEN NUL ELSE character]

\* strcpy copies up to and including the first NUL: offset of that NUL
strcpy_last(buffer, top) ==
    CHOOSE k \in 0 .. top : buffer[k] = NUL /\ \A j \in 0 .. (k - 1) : buffer[j] # NUL

\* One call: the field it yields, the size it passed to malloc, the highest
\* offset it wrote in characters[] and the highest offset strcpy wrote in
\* *text.  A size the scratch buffer cannot hold yields no field.
set_text_fill(character, size) ==
    IF size < ScratchCapacity
    THEN LET characters == scratch_after_loop(character, size)
             last == strcpy_last(characters, size)
         IN  [ character |-> character, size |-> size,
               text |-> [k \in 1 .. last |-> characters[k - 1]],
               heap_size |-> size, heap_last |-> last, scratch_last |-> size ]
    ELSE [ character |-> character, size |-> size, text |-> << >>,
           heap_size |-> size, heap_last |-> size, scratch_last |-> size ]

\* A call together with the mathematical value of its width expression.
Fill(character, size, exact) ==
    [call |-> set_text_fill(character, size), exact |-> exact]

\* --------------------------------- print_multiplication_custom_separator
separator_text(repeat, c) == [k \in 1 .. repeat |-> c]

\* --------------------------------------------------- print_text, lines 80-150
spaces_left == 2
separator == Add(spaces_left, result_size)

Note(text) == IF is_printing_description # 0 THEN text ELSE << >>

\* An item is one printf of a line with the set_text_fill calls made for it.
Item(fills, line) == [fills |-> fills, line |-> line]

\* lines 86-90
multiplicand_item ==
    LET f == Fill(" ", Add(spaces_left, Sub(result_size, multiplicand_size)),
                  spaces_left + (result_size - multiplicand_size))
    IN  Item(<< f >>,
             Line("multiplicand", 0, f.call.text \o multiplicand_str,
                  Note(<< " ---> Multiplicand => a" >>)))

\* lines 92-96
multiplier_item ==
    LET f == Fill(" ", Add(Sub(spaces_left, 1), Sub(result_size, multiplier_size)),
                  spaces_left - 1 + (result_size - multiplier_size))
    IN  Item(<< f >>,
             Line("multiplier", 0, << "x" >> \o f.call.text \o multiplier_str,
                  Note(<< " ---> Multiplier   => b" >>)))

separator_item(c) ==
    Item(<< >>, Line("separator", 0, separator_text(separator, c), << >>))

\* pre_space without the row's recession
pre_space_flat(i) == result_size

\* lines 102, 136
pre_space(i) == Sub(result_size, i \div 3)
\* lines 103, 137
actual_multiplier(i) == (i \div 3) + 1

\* lines 102-130: the items of the row whose slots start at i
row_items(i) ==
    LET d == Fill(" ", i \div 3, i \div 3)
        u == Fill(" ", Sub(pre_space(i), count_digits(mem[i])),
                  result_size - (i \div 3) - count_digits(mem[i]))
        c == Fill(" ", Sub(pre_space(i), count_digits(mem[i + 1])),
                  result_size - (i \div 3) - count_digits(mem[i + 1]))
        s == Fill(" ", Sub(pre_space(i), count_digits(mem[i + 2])),
                  result_size - (i \div 3) - count_digits(mem[i + 2]))
        b == FormatLLU(actual_multiplier(i))
    IN  << Item(<< d, u >>,
                Line("units", i \div 3,
                     << " ", " " >> \o u.call.text \o FormatLLU(mem[i]),
                     Note(<< " " >> \o d.call.text \o << "---> First digit: b" >> \o b \o << " * a[x]" >>))),
           Item(<< c >>,
                Line("carry", i \div 3,
                     << "+", " " >> \o c.call.text \o FormatLLU(mem[i + 1]),
                     Note(<< " " >> \o d.call.text \o << "---> Carry: b" >> \o b \o << " * a[x]" >>))),
           Item(<< s >>,
                Line("sum", i \div 3,
                     << "=", " " >> \o s.call.text \o FormatLLU(mem[i + 2]),
                     Note(<< " " >> \o d.call.text \o << "---> Result of the sum" >>))) >>
        \o (IF i + 3 < operations_size THEN << separator_item("-") >> ELSE << >>)

\* lines 101-131, from i on
RECURSIVE rows_loop(_)
rows_loop(i) ==
    IF i < operations_size THEN row_items(i) \o rows_loop(i + 3) ELSE << >>

\* The second loop started at the second row's sum
partial_first_skip == 2 + 3

\* line 135: the first slot the second loop shows
partial_first == 2

\* lines 136-143
partial_item(i) ==
    LET p == Fill(" ", Sub(pre_space(i), count_digits(mem[i])),
                  result_size - (i \div 3) - count_digits(mem[i]))
        z == Fill("0", i \div 3, i \div 3)
    IN  Item(<< p, z >>,
             Line("partial", i \div 3,
                  << "+", " " >> \o p.call.text \o FormatLLU(mem[i]) \o z.call.text,
                  Note(<< " ---> Result: b" >> \o FormatLLU(actual_multiplier(i)) \o << " * a" >>)))

\* lines 135-144, from i on
RECURSIVE partials_loop(_)
partials_loop(i) ==
    IF i < operations_size THEN << partial_item(i) >> \o partials_loop(i + 3) ELSE << >>

\* lines 146-149
final_item ==
    Item(<< >>, Line("final", 0, << "=", " " >> \o FormatLLU(result),
                     Note(<< " ---> Final result" >>)))

\* Everything print_text does when no call faults, in program order.
print_text_items ==
    << multiplicand_item, multiplier_item, separator_item("=") >>
    \o rows_loop(0)
    \o << separator_item("=") >>
    \o partials_loop(partial_first)
    \o << separator_item("-"), final_item >>

\* A call whose size the 4000-byte scratch buffer cannot hold writes past
\* it up the stack.  The sizes that reach it here are wrapped differences,
\* within a few units of the word's maximum: the loop runs off the stack
\* and the process dies in that call.
FillFaults(f) == f.call.scratch_last >= ScratchCapacity

ItemFaults(item) == \E k \in 1 .. Len(item.fills) : FillFaults(item.fills[k])

FirstFault(items) ==
    IF \E k \in 1 .. Len(items) : ItemFaults(items[k])
    THEN CHOOSE k \in 1 .. Len(items) :
            ItemFaults(items[k]) /\ \A j \in 1 .. (k - 1) : ~ItemFaults(items[j])
    ELSE Len(items) + 1

\* The lines printed before the first faulting call.
printed_lines(items) == [k \in 1 .. (FirstFault(items) - 1) |-> items[k].line]

\* The calls made: all those of the items printed, and those of the
\* faulting item up to its first faulting call.
calls_made(items) ==
    LET ff == FirstFault(items)
        upto(item) ==
            CHOOSE n \in 1 .. Len(item.fills) :
                FillFaults(item.fills[n]) /\ \A j \in 1 .. (n - 1) : ~FillFaults(item.fills[j])
    IN  UNION { { items[k].fills[n] : n \in 1 .. Len(items[k].fills) } : k \in 1 .. (ff - 1) }
        \cup (IF ff <= Len(items)
              THEN { items[ff].fills[n] : n \in 1 .. upto(items[ff]) }
              ELSE {})

PrintText ==
    /\ pc = "generated"
    /\ output' = output \o printed_lines(print_text_items)
    /\ fill_calls' = calls_made(print_text_items)
    /\ IF FirstFault(print_text_items) <= Len(print_text_items)
       THEN exit_status' = "SIGSEGV" /\ pc' = "crashed"
       ELSE exit_status' = "EXIT_0" /\ pc' = "done"
    /\ UNCHANGED << argv, multiplier, multiplier_str, multiplier_size,
                    multiplicand, multiplicand_str, multiplicand_size,
                    result, result_size, mem, oob_writes >>

\* ---------------------------------------------------------- specification
Next ==
    \/ MainArgumentsError
    \/ MainParse
    \/ GenerateOperations
    \/ GenerateOperationsFault
    \/ PrintText

Spec == Init /\ [][Next]_vars

TypeOK ==
    /\ pc \in {"start", "parsed", "generated", "done", "crashed", "exited"}
    /\ exit_status \in {"running", "EXIT_0", "ERROR_ARGUMENTS", "SIGSEGV"}
    /\ \A s \in Slots : mem[s] \in 0 .. ULLONG_MAX
    /\ result \in 0 .. ULLONG_MAX

\* ------------------------------------------------------ vocabulary of claims
IsDigitString(s) == \A k \in 1 .. Len(s) : s[k] \in DigitChars
Value(s) == DigitsValue(s, Len(s))

Started == pc # "start" /\ argc = 5
Ended == pc \in {"done", "crashed", "exited"}
Generated == pc \in {"generated", "done"} \/ (pc = "crashed" /\ fill_calls # {})

OperandsAreDigits == IsDigitString(argv[1]) /\ IsDigitString(argv[2])

\* Operands the word and the array can hold: no product, weight or total
\* exceeds the word and every row lies inside operations[].
WithinWidth ==
    /\ OperandsAreDigits
    /\ Value(argv[1]) * Value(argv[2]) <= ULLONG_MAX
    /\ 9 * Value(argv[2]) <= ULLONG_MAX
    /\ 3 * Len(argv[1]) <= OperationsCapacity

\* digit_at(b, i): the multiplier's digit of weight 10^i
digit_at(s, i) == Ord(s[Len(s) - i]) - 48

RECURSIVE ShiftedRowSums(_)
ShiftedRowSums(n) ==
    IF n = 0 THEN 0 ELSE ShiftedRowSums(n - 1) + mem[3 * (n - 1) + 2] * 10 ^ (n - 1)

ContentKinds == {"multiplicand", "multiplier", "units", "carry", "sum", "partial", "final"}
RowKinds == {"units", "carry", "sum"}
W == result_size + 2

IsPartial(l) == l.kind = "partial"
PartialLines == SelectSeq(output, IsPartial)
IsEqualsSeparator(l) == l.kind = "separator" /\ l.text[1] = "="
Zeros(n) == [k \in 1 .. n |-> "0"]
Spaces(n) == [k \in 1 .. n |-> " "]

\* C1: for operands within the supported width, after generate_operations
\* the row sums, each shifted by its row index, add up to a * b, which is
\* also the stored result.
C1_RowSumsAddUpToProduct ==
    (Generated /\ WithinWidth) =>
        /\ ShiftedRowSums(Len(argv[1])) = Value(argv[1]) * Value(argv[2])
        /\ result = Value(argv[1]) * Value(argv[2])

\* C2: every row sum is the multiplier digit of that row times the whole
\* multiplicand, whatever the operations storage held before the call.
C2_RowSumIsDigitTimesMultiplicand ==
    (Generated /\ WithinWidth) =>
        \A i \in 0 .. (Len(argv[1]) - 1) :
            mem[3 * i + 2] = digit_at(argv[1], i) * Value(argv[2])

\* C3: an operand with a character outside 0..9 ends the run in the
\* InvalidDigit failure; no row is computed and no layout line is printed.
C3_InvalidDigitRejected ==
    (argc = 5 /\ ~OperandsAreDigits) =>
        /\ ~Generated
        /\ \A k \in 1 .. Len(output) : output[k].kind \notin ContentKinds
        /\ Ended => exit_status = "InvalidDigit"

\* C4: a product beyond the word width ends the run in the Overflow failure
\* and the stored result is never the product reduced modulo the word.
C4_OverflowRejected ==
    (argc = 5 /\ OperandsAreDigits /\ Value(argv[1]) * Value(argv[2]) > ULLONG_MAX) =>
        /\ Started => result # (Value(argv[1]) * Value(argv[2])) % Modulus
        /\ Ended => exit_status = "Overflow"

\* C5: a multiplier with more rows than the storage holds is rejected with
\* InputTooLarge and generate_operations writes no slot at or beyond the
\* capacity.
C5_NoWriteBeyondCapacity ==
    /\ oob_writes = {}
    /\ (argc = 5 /\ 3 * Len(argv[1]) > OperationsCapacity) =>
           (~Generated /\ (Ended => exit_status = "InputTooLarge"))

\* C6 as stated: every content line is exactly W wide, whatever its row.
C6_EveryLineIsWWide ==
    \A k \in 1 .. Len(output) :
        output[k].kind \in ContentKinds => Len(output[k].text) = W

\* C6 as amended: the multiplicand, partial-product and final lines are W
\* wide, the multiplier is right-justified in W - 1 characters after the x,
\* and the units, carry and row-sum lines of row i are W - i wide.
C6_LineWidths ==
    \A k \in 1 .. Len(output) :
        LET l == output[k] IN
        /\ l.kind \in {"multiplicand", "partial", "final"} => Len(l.text) = W
        /\ l.kind = "multiplier" =>
              /\ Len(l.text) = W
              /\ l.text = << "x" >> \o Spaces(W - 1 - multiplier_size) \o multiplier_str
        /\ l.kind \in RowKinds => Len(l.text) = W - l.row

\* A finished render with a row of index 1 or more.
C6_Witness ==
    /\ pc = "done"
    /\ \E k \in 1 .. Len(output) : output[k].kind = "sum" /\ output[k].row >= 1
    /\ \E k \in 1 .. Len(output) : output[k].kind = "partial" /\ output[k].row >= 1

\* C7 as stated: one "+ row_sum" line for each row except the first.
C7_PartialLinesSkipFirstRow ==
    pc = "done" =>
        /\ Len(PartialLines) = multiplier_size - 1
        /\ \A k \in 1 .. Len(PartialLines) : PartialLines[k].row = k

\* C7 as amended: the lines between the second = separator and the final -
\* separator are one "+ row_sum" line per row, the first row included, in
\* row order; the line of row i shows operations[3i+2] followed by exactly
\* i zeros; a render that finishes has len(multiplier) of them.
C7_PartialLinePerRow ==
    /\ \A k \in 1 .. Len(PartialLines) :
          LET l == PartialLines[k]
              i == k - 1
              shown == FormatLLU(mem[3 * i + 2]) \o Zeros(i)
          IN  /\ l.row = i
              /\ Len(l.text) >= 2 + Len(shown)
              /\ l.text = << "+" >> \o Spaces(Len(l.text) - 1 - Len(shown)) \o shown
    /\ \A k \in 1 .. Len(output) :
          output[k].kind = "partial" =>
              /\ Cardinality({j \in 1 .. (k - 1) : IsEqualsSeparator(output[j])}) = 2
              /\ output[k - 1].kind \in {"separator", "partial"}
    /\ pc = "done" =>
          /\ Len(PartialLines) = multiplier_size
          /\ output[Len(output)].kind = "final"
          /\ output[Len(output) - 1].kind = "separator"
          /\ output[Len(output) - 2].kind = "partial"

\* A finished render of a multiplier of two or more digits.
C7_Witness ==
    /\ pc = "done"
    /\ multiplier_size >= 2
    /\ Len(PartialLines) >= 2

\* C8: the labels are printed exactly when the flag token does not start
\* with n or N.
C8_FlagDecidesAnnotation ==
    \A k \in 1 .. Len(output) :
        output[k].kind \in ContentKinds =>
            ((output[k].note # << >>) <=> ~FlagIsOff(argv[4]))

\* C9: for operands that are non-empty digit strings no padding width is
\* negative: set_text_fill is never called with a wrapped-around size.
C9_NoNegativeWidth ==
    (argc = 5 /\ OperandsAreDigits) =>
        \A f \in fill_calls : f.exact >= 0 /\ f.call.size = f.exact

\* C10: set_text_fill yields exactly n copies and writes neither at or
\* beyond offset n of the n-byte buffer it allocates nor at or beyond the
\* capacity of its scratch buffer.
C10_FillStaysInBounds ==
    \A f \in fill_calls :
        /\ Len(f.call.text) = f.call.size
        /\ f.call.heap_last < f.call.heap_size
        /\ f.call.scratch_last < ScratchCapacity

====
